---------------------------- MODULE Spec2Model ----------------------------
(***************************************************************************)
(* A model of the ML service of transaction-insight-ai:                    *)
(*   utils.py    clean_text, standardize_category, detect_amount_anomalies *)
(*   schemas.py  the request and response validation                       *)
(*   app.py      load_model and the request handlers                       *)
(*                                                                         *)
(* Text is a sequence of one-character strings.  A Python dict is a        *)
(* function whose DOMAIN is the set of keys the dict holds, so that        *)
(* `'amount' in t` is  "amount" \in DOMAIN t.  Amounts are integers; the   *)
(* z-score tests are carried out exactly on integers (cross-multiplied),   *)
(* and a score is represented by its square as a reduced fraction.         *)
(***************************************************************************)
EXTENDS Integers, Sequences, FiniteSets, TLC

VARIABLES
    model_bundle,   \* app.py: the global model_bundle (None or the loaded dict)
    phase,          \* the process: "starting", "serving" or "exited"
    call,           \* the operation invoked last, with its arguments
    outcome,        \* what that operation returned or raised
    diag,           \* the diagnostic lines that operation printed
    inflight        \* the requests the server is in the middle of handling

vars == <<model_bundle, phase, call, outcome, diag, inflight>>

\* Python's None, comparable with a dict
None == [py |-> "None"]
\* no exception was raised
NoError == "none"

-----------------------------------------------------------------------------
(* Characters and text                                                     *)

UpperChars == <<"A","B","C","D","E","F","G","H","I","J","K","L","M",
                "N","O","P","Q","R","S","T","U","V","W","X","Y","Z">>
LowerChars == <<"a","b","c","d","e","f","g","h","i","j","k","l","m",
                "n","o","p","q","r","s","t","u","v","w","x","y","z">>
DigitChars == <<"0","1","2","3","4","5","6","7","8","9">>
\* string.whitespace as far as the model's inputs use it
WhitespaceChars == {" ", "\t"}

\* The characters in code-point order (the order Python compares str by):
\* the tab, the space and the printable ASCII characters (but the backquote,
\* which a TLA+ string cannot hold).
CodePointOrder ==
    <<"\t"," ","!","\"","#","$","%","&","'","(",")","*","+",",","-",".",
      "/","0","1","2","3","4","5","6","7","8","9",":",";","<","=",">",
      "?","@","A","B","C","D","E","F","G","H","I","J","K","L","M","N",
      "O","P","Q","R","S","T","U","V","W","X","Y","Z","[","\\","]","^",
      "_","a","b","c","d","e","f","g","h","i","j","k","l","m","n",
      "o","p","q","r","s","t","u","v","w","x","y","z","{","|","}","~">>

Ord(c) == CHOOSE i \in 1..Len(CodePointOrder) : CodePointOrder[i] = c

IsUpper(c) == \E i \in 1..26 : UpperChars[i] = c
IsLower(c) == \E i \in 1..26 : LowerChars[i] = c

\* str.lower() and str.upper() on one character
LowerChar(c) == IF IsUpper(c) THEN LowerChars[CHOOSE i \in 1..26 : UpperChars[i] = c] ELSE c
UpperChar(c) == IF IsLower(c) THEN UpperChars[CHOOSE i \in 1..26 : LowerChars[i] = c] ELSE c

\* str.lower()
Lower(s) == [i \in 1..Len(s) |-> LowerChar(s[i])]
\* str.upper()
Upper(s) == [i \in 1..Len(s) |-> UpperChar(s[i])]

\* str.capitalize(): the first character upper-cased, the rest lower-cased
Capitalize(s) == [i \in 1..Len(s) |-> IF i = 1 THEN UpperChar(s[i]) ELSE LowerChar(s[i])]

\* str.strip(): leading and trailing whitespace removed
Strip(s) ==
    LET keep == {i \in 1..Len(s) : s[i] \notin WhitespaceChars}
    IN  IF keep = {} THEN <<>>
        ELSE LET lo == CHOOSE i \in keep : \A j \in keep : i <= j
                 hi == CHOOSE i \in keep : \A j \in keep : j <= i
             IN  SubSeq(s, lo, hi)

\* s < t for Python str: lexicographic on code points
RECURSIVE StrLess(_, _)
StrLess(s, t) ==
    IF t = <<>> THEN FALSE
    ELSE IF s = <<>> THEN TRUE
    ELSE IF s[1] # t[1] THEN Ord(s[1]) < Ord(t[1])
    ELSE StrLess(Tail(s), Tail(t))

-----------------------------------------------------------------------------
(* utils.py: clean_text                                                    *)

\* string.punctuation (but the backquote)
Punctuation ==
    {"!","\"","#","$","%","&","'","(",")","*","+",",","-",".","/",":",
     ";","<","=",">","?","@","[","\\","]","^","_","{","|","}","~"}

IsSpace(c) == c \in WhitespaceChars
IsDigit(c) == \E i \in 1..Len(DigitChars) : DigitChars[i] = c

\* the last position of the run of \S that starts at i (i - 1: no run)
RECURSIVE NonSpaceRunEnd(_, _)
NonSpaceRunEnd(s, i) ==
    IF i > Len(s) \/ IsSpace(s[i]) THEN i - 1 ELSE NonSpaceRunEnd(s, i + 1)

\* the last position of the run of \d that starts at i (i - 1: no run)
RECURSIVE DigitRunEnd(_, _)
DigitRunEnd(s, i) ==
    IF i > Len(s) \/ ~IsDigit(s[i]) THEN i - 1 ELSE DigitRunEnd(s, i + 1)

StartsWith(s, i, prefix) ==
    /\ i + Len(prefix) - 1 <= Len(s)
    /\ SubSeq(s, i, i + Len(prefix) - 1) = prefix

\* re.sub(pattern, '', s): the leftmost matches, found from left to right, are
\* deleted.  MatchEnd(s, i) is the last position of the match of the pattern
\* that starts at i, or i - 1 when none starts there.
RECURSIVE DeleteMatches(_, _, _)
DeleteMatches(MatchEnd(_, _), s, i) ==
    IF i > Len(s) THEN <<>>
    ELSE IF MatchEnd(s, i) >= i THEN DeleteMatches(MatchEnd, s, MatchEnd(s, i) + 1)
    ELSE <<s[i]>> \o DeleteMatches(MatchEnd, s, i + 1)

\* r'http\S+|www\S+'
UrlMatchEnd(s, i) ==
    IF StartsWith(s, i, <<"h","t","t","p">>) /\ NonSpaceRunEnd(s, i + 4) >= i + 4
    THEN NonSpaceRunEnd(s, i + 4)
    ELSE IF StartsWith(s, i, <<"w","w","w">>) /\ NonSpaceRunEnd(s, i + 3) >= i + 3
    THEN NonSpaceRunEnd(s, i + 3)
    ELSE i - 1

\* r'\S+@\S+': a run of \S from i with an "@" that is neither its first nor
\* its last character; the greedy match takes the whole run
EmailMatchEnd(s, i) ==
    LET e == NonSpaceRunEnd(s, i)
    IN  IF \E p \in (i + 1)..(e - 1) : s[p] = "@" THEN e ELSE i - 1

IsDateSeparator(s, i) == i <= Len(s) /\ s[i] \in {"/", "-"}

\* r'\d+[/-]\d+[/-]\d+'
DateMatchEnd(s, i) ==
    LET d1 == DigitRunEnd(s, i)
        d2 == DigitRunEnd(s, d1 + 2)
        d3 == DigitRunEnd(s, d2 + 2)
    IN  IF /\ d1 >= i
           /\ IsDateSeparator(s, d1 + 1) /\ d2 >= d1 + 2
           /\ IsDateSeparator(s, d2 + 1) /\ d3 >= d2 + 2
        THEN d3 ELSE i - 1

\* r'\d+'
NumberMatchEnd(s, i) == DigitRunEnd(s, i)

\* re.sub(f'[{re.escape(string.punctuation)}]', ' ', s)
PunctuationToSpace(s) == [i \in 1..Len(s) |-> IF s[i] \in Punctuation THEN " " ELSE s[i]]

\* str.split(): the runs of non-whitespace characters, in order
RECURSIVE Split(_, _)
Split(s, i) ==
    IF i > Len(s) THEN <<>>
    ELSE IF IsSpace(s[i]) THEN Split(s, i + 1)
    ELSE <<SubSeq(s, i, NonSpaceRunEnd(s, i))>> \o Split(s, NonSpaceRunEnd(s, i) + 1)

noise_words ==
    {<<"p","u","r","c","h","a","s","e">>,
     <<"p","a","y","m","e","n","t">>,
     <<"t","r","a","n","s","a","c","t","i","o","n">>,
     <<"d","e","b","i","t">>,
     <<"c","r","e","d","i","t">>,
     <<"p","o","s">>,
     <<"c","a","r","d">>,
     <<"o","n","l","i","n","e">>,
     <<"m","o","b","i","l","e">>,
     <<"r","e","c","u","r","r","i","n","g">>,
     <<"a","u","t","o","m","a","t","i","c">>,
     <<"w","i","t","h","d","r","a","w","a","l">>,
     <<"d","e","p","o","s","i","t">>,
     <<"t","r","a","n","s","f","e","r">>,
     <<"b","i","l","l">>,
     <<"s","u","b","s","c","r","i","p","t","i","o","n">>}

\* [w for w in words if w not in noise_words]
RECURSIVE DropNoise(_)
DropNoise(words) ==
    IF words = <<>> THEN <<>>
    ELSE (IF Head(words) \in noise_words THEN <<>> ELSE <<Head(words)>>)
            \o DropNoise(Tail(words))

\* ' '.join(words)
RECURSIVE Join(_)
Join(words) ==
    IF words = <<>> THEN <<>>
    ELSE IF Len(words) = 1 THEN words[1]
    ELSE words[1] \o <<" ">> \o Join(Tail(words))

\* re.sub(r'\s+', ' ', s)
RECURSIVE CollapseSpaces(_, _)
CollapseSpaces(s, i) ==
    IF i > Len(s) THEN <<>>
    ELSE IF IsSpace(s[i])
    THEN (IF i > 1 /\ IsSpace(s[i - 1]) THEN <<>> ELSE <<" ">>) \o CollapseSpaces(s, i + 1)
    ELSE <<s[i]>> \o CollapseSpaces(s, i + 1)

clean_text(text) ==
    LET lowered   == Lower(text)
        no_urls   == DeleteMatches(UrlMatchEnd, lowered, 1)
        no_emails == DeleteMatches(EmailMatchEnd, no_urls, 1)
        no_dates  == DeleteMatches(DateMatchEnd, no_emails, 1)
        no_digits == DeleteMatches(NumberMatchEnd, no_dates, 1)
        spaced    == PunctuationToSpace(no_digits)
        words     == DropNoise(Split(spaced, 1))
    IN  Strip(CollapseSpaces(Join(words), 1))

\* [clean_text(desc) for desc in descriptions]
preprocess_descriptions(descriptions) ==
    [i \in 1..Len(descriptions) |-> clean_text(descriptions[i])]

\* a Python value passed as an argument, with its type
StrValue(text) == [type |-> "str", value |-> text]
NoneValue == [type |-> "NoneType", value |-> "None"]
IntValue(n) == [type |-> "int", value |-> n]

\* clean_text(text) for a value of any type: the first statement is
\* text.lower(), and only a str has that attribute
clean_text_call(text) ==
    IF text.type # "str"
    THEN [raised |-> "AttributeError", value |-> <<>>]
    ELSE [raised |-> "none", value |-> clean_text(text.value)]

-----------------------------------------------------------------------------
(* utils.py: CATEGORY_MAP and standardize_category                         *)

\* the dict as its set of <<key, value>> items
CATEGORY_MAP ==
    {<<<<"f","o","o","d">>, <<"F","o","o","d">>>>,
     <<<<"g","r","o","c","e","r","i","e","s">>, <<"F","o","o","d">>>>,
     <<<<"r","e","s","t","a","u","r","a","n","t">>, <<"F","o","o","d">>>>,
     <<<<"d","i","n","i","n","g">>, <<"F","o","o","d">>>>,
     <<<<"t","r","a","n","s","p","o","r","t","a","t","i","o","n">>, <<"T","r","a","n","s","p","o","r","t","a","t","i","o","n">>>>,
     <<<<"t","r","a","n","s","p","o","r","t">>, <<"T","r","a","n","s","p","o","r","t","a","t","i","o","n">>>>,
     <<<<"g","a","s">>, <<"T","r","a","n","s","p","o","r","t","a","t","i","o","n">>>>,
     <<<<"f","u","e","l">>, <<"T","r","a","n","s","p","o","r","t","a","t","i","o","n">>>>,
     <<<<"u","b","e","r">>, <<"T","r","a","n","s","p","o","r","t","a","t","i","o","n">>>>,
     <<<<"l","y","f","t">>, <<"T","r","a","n","s","p","o","r","t","a","t","i","o","n">>>>,
     <<<<"e","n","t","e","r","t","a","i","n","m","e","n","t">>, <<"E","n","t","e","r","t","a","i","n","m","e","n","t">>>>,
     <<<<"m","o","v","i","e">>, <<"E","n","t","e","r","t","a","i","n","m","e","n","t">>>>,
     <<<<"s","t","r","e","a","m","i","n","g">>, <<"E","n","t","e","r","t","a","i","n","m","e","n","t">>>>,
     <<<<"g","a","m","i","n","g">>, <<"E","n","t","e","r","t","a","i","n","m","e","n","t">>>>,
     <<<<"s","h","o","p","p","i","n","g">>, <<"S","h","o","p","p","i","n","g">>>>,
     <<<<"r","e","t","a","i","l">>, <<"S","h","o","p","p","i","n","g">>>>,
     <<<<"b","i","l","l","s">>, <<"B","i","l","l","s">>>>,
     <<<<"u","t","i","l","i","t","i","e","s">>, <<"B","i","l","l","s">>>>,
     <<<<"u","t","i","l","i","t","y">>, <<"B","i","l","l","s">>>>,
     <<<<"i","n","c","o","m","e">>, <<"I","n","c","o","m","e">>>>,
     <<<<"s","a","l","a","r","y">>, <<"I","n","c","o","m","e">>>>,
     <<<<"p","a","y","c","h","e","c","k">>, <<"I","n","c","o","m","e">>>>,
     <<<<"t","r","a","v","e","l">>, <<"T","r","a","v","e","l">>>>,
     <<<<"h","o","t","e","l">>, <<"T","r","a","v","e","l">>>>,
     <<<<"f","l","i","g","h","t">>, <<"T","r","a","v","e","l">>>>,
     <<<<"a","i","r","l","i","n","e">>, <<"T","r","a","v","e","l">>>>,
     <<<<"t","r","a","n","s","f","e","r">>, <<"T","r","a","n","s","f","e","r">>>>,
     <<<<"a","t","m">>, <<"T","r","a","n","s","f","e","r">>>>,
     <<<<"i","n","s","u","r","a","n","c","e">>, <<"I","n","s","u","r","a","n","c","e">>>>,
     <<<<"i","n","v","e","s","t","m","e","n","t">>, <<"I","n","v","e","s","t","m","e","n","t">>>>,
     <<<<"s","t","o","c","k","s">>, <<"I","n","v","e","s","t","m","e","n","t">>>>,
     <<<<"r","e","t","i","r","e","m","e","n","t">>, <<"I","n","v","e","s","t","m","e","n","t">>>>}

CategoryMapKeys == {item[1] : item \in CATEGORY_MAP}

\* CATEGORY_MAP.get(key, default)
CategoryMapGet(key, default) ==
    IF key \in CategoryMapKeys
    THEN (CHOOSE item \in CATEGORY_MAP : item[1] = key)[2]
    ELSE default

Other == <<"O","t","h","e","r">>

\* A plausible slip: the fallback for an empty result is left out.
standardize_category_no_fallback(category) ==
    Capitalize(CategoryMapGet(Strip(Lower(category)), category))

\* A plausible slip: the label is looked up as it came, not lower-cased and
\* stripped.
standardize_category_raw_lookup(category) ==
    LET standardized == CategoryMapGet(category, category)
    IN  IF standardized # <<>> THEN Capitalize(standardized) ELSE Other

standardize_category(category) ==
    LET category_lower == Strip(Lower(category))
        standardized   == CategoryMapGet(category_lower, category)
    IN  IF standardized # <<>> THEN Capitalize(standardized) ELSE Other

-----------------------------------------------------------------------------
(* Exact arithmetic on fractions of integers                               *)

RECURSIVE Gcd(_, _)
Gcd(a, b) == IF b = 0 THEN a ELSE Gcd(b, a % b)

\* The fraction n/d (n >= 0, d > 0) in lowest terms.
Frac(n, d) == LET g == Gcd(n, d) IN [num |-> n \div g, den |-> d \div g]

\* a/b > c/d for a, c >= 0 and b, d > 0, by comparing the integer parts and
\* then the reciprocals of the fractional parts (no product is formed).
RECURSIVE FracGreater(_, _, _, _)
FracGreater(a, b, c, d) ==
    IF a \div b # c \div d THEN a \div b > c \div d
    ELSE IF a % b = 0 THEN FALSE
    ELSE IF c % d = 0 THEN TRUE
    ELSE FracGreater(d, c % d, b, a % b)

Max(a, b) == IF a >= b THEN a ELSE b
Min(a, b) == IF a <= b THEN a ELSE b

\* int(x) of Python for x = a/d, d > 0: truncation toward zero
IntTrunc(a, d) == IF a >= 0 THEN a \div d ELSE -((-a) \div d)

-----------------------------------------------------------------------------
(* utils.py: detect_amount_anomalies                                       *)

\* the policy constants of the detector
MinTransactions == 5
MinGroupSize == 3
\* the threshold 2.5 on |z|, as the fraction 5/2
ZThresholdNum == 5
ZThresholdDen == 2
\* the divisor 5.0 of the score
ScoreScale == 5

\* transactions[idx] for the 0-based DataFrame index idx
Row(transactions, idx) == transactions[idx + 1]
RowIndex(transactions) == 0..(Len(transactions) - 1)

\* df.columns of pd.DataFrame(transactions): every key some record holds
Columns(transactions) == UNION {DOMAIN transactions[i] : i \in 1..Len(transactions)}

\* the keys of df.groupby('category'): rows without a category are dropped
GroupKeys(transactions) ==
    {Row(transactions, i).category :
        i \in {j \in RowIndex(transactions) : "category" \in DOMAIN Row(transactions, j)}}

\* A plausible slip: every row is taken as a member of every group.
GroupRowsUngrouped(transactions, category) == RowIndex(transactions)

\* A plausible slip: the groups are formed on the standardized category.
GroupRowsStandardized(transactions, category) ==
    {i \in RowIndex(transactions) :
        /\ "category" \in DOMAIN Row(transactions, i)
        /\ standardize_category(Row(transactions, i).category)
                = standardize_category(category)}

\* the rows of one group of df.groupby('category')
GroupRows(transactions, category) ==
    {i \in RowIndex(transactions) :
        /\ "category" \in DOMAIN Row(transactions, i)
        /\ Row(transactions, i).category = category}

\* groupby(sort=True): the group keys in ascending order
RECURSIVE SortedKeys(_)
SortedKeys(keys) ==
    IF keys = {} THEN <<>>
    ELSE LET least == CHOOSE k \in keys : \A o \in keys \ {k} : StrLess(k, o)
         IN  <<least>> \o SortedKeys(keys \ {least})

\* the rows of a group whose amount is not NaN (mean and std skip NaN)
ValidRows(transactions, rows) ==
    {i \in rows : "amount" \in DOMAIN Row(transactions, i)}

RECURSIVE SumAmount(_, _, _)
SumAmount(transactions, rows, upto) ==
    IF upto < 0 THEN 0
    ELSE (IF upto \in rows THEN Row(transactions, upto).amount ELSE 0)
            + SumAmount(transactions, rows, upto - 1)

RECURSIVE SumSquares(_, _, _)
SumSquares(transactions, rows, upto) ==
    IF upto < 0 THEN 0
    ELSE (IF upto \in rows THEN Row(transactions, upto).amount * Row(transactions, upto).amount
          ELSE 0)
            + SumSquares(transactions, rows, upto - 1)

\* group['amount'].mean() and .std() (ddof = 1) over the k valid rows, kept
\* exact: mean = sum / k, std^2 = (k*sumsq - sum^2) / (k*(k-1)).
GroupStats(transactions, rows) ==
    LET valid == ValidRows(transactions, rows)
        last  == Len(transactions) - 1
    IN  [k     |-> Cardinality(valid),
         sum   |-> SumAmount(transactions, valid, last),
         sumsq |-> SumSquares(transactions, valid, last)]

\* std is NaN when fewer than two amounts are valid
StdIsNaN(st) == st.k < 2
\* std_amount == 0
StdIsZero(st) == ~StdIsNaN(st) /\ st.k * st.sumsq - st.sum * st.sum = 0

\* A plausible slip: the deviation is that of the population (ddof=0).
ZSquaredNumPopulation(st, x) == st.k * (st.k * x - st.sum) * (st.k * x - st.sum)

\* z^2 of amount x in a group with statistics st, as numerator and denominator:
\* z = (x - sum/k) / std, so z^2 = (k-1)(k*x - sum)^2 / (k*(k*sumsq - sum^2)).
ZSquaredNum(st, x) == (st.k - 1) * (st.k * x - st.sum) * (st.k * x - st.sum)
ZSquaredDen(st) == st.k * (st.k * st.sumsq - st.sum * st.sum)

\* A plausible slip: the threshold is two deviations.
IsUnusualTwoSigma(st, x) ==
    FracGreater(ZSquaredNum(st, x), ZSquaredDen(st), 4, 1)

\* group['z_score'].abs() > 2.5
IsUnusual(st, x) ==
    FracGreater(ZSquaredNum(st, x), ZSquaredDen(st),
                ZThresholdNum * ZThresholdNum, ZThresholdDen * ZThresholdDen)

\* A plausible slip: the score is not capped at 1.0.
ScoreUncapped(st, x) ==
    LET z2 == Frac(ZSquaredNum(st, x), ZSquaredDen(st))
    IN  Frac(z2.num, ScoreScale * ScoreScale * z2.den)

\* score = min(abs(z) / 5.0, 1.0), represented by score^2 in lowest terms
Score(st, x) ==
    LET z2 == Frac(ZSquaredNum(st, x), ZSquaredDen(st))
    IN  IF z2.num \div z2.den >= ScoreScale * ScoreScale THEN [num |-> 1, den |-> 1]
        ELSE Frac(z2.num, ScoreScale * ScoreScale * z2.den)

ScoreLess(s, t) == FracGreater(t.num, t.den, s.num, s.den)

\* f"{v:.2f}" of the value n/d, as a number of hundredths
TwoDecimals(n, d) == (200 * n + d) \div (2 * d)

\* A plausible slip: both branches of the reason say "high".
ReasonAlwaysHigh(st, x, category) ==
    [direction |-> "high",
     amount    |-> TwoDecimals(x, 1),
     category  |-> category,
     typical   |-> TwoDecimals(st.sum, st.k)]

\* the f-string of the reason, kept as the parts it embeds
Reason(st, x, category) ==
    [direction |-> IF st.k * x - st.sum > 0 THEN "high" ELSE "low",
     amount    |-> TwoDecimals(x, 1),
     category  |-> category,
     typical   |-> TwoDecimals(st.sum, st.k)]

\* A plausible slip: the records are counted from one.
RECURSIVE GroupAnomaliesOneBased(_, _, _, _, _)
GroupAnomaliesOneBased(transactions, category, rows, st, from) ==
    IF from >= Len(transactions) THEN <<>>
    ELSE LET rest == GroupAnomaliesOneBased(transactions, category, rows, st, from + 1)
         IN  IF /\ from \in rows
                /\ "amount" \in DOMAIN Row(transactions, from)
                /\ IsUnusual(st, Row(transactions, from).amount)
             THEN <<[index  |-> from + 1,
                     score  |-> Score(st, Row(transactions, from).amount),
                     reason |-> Reason(st, Row(transactions, from).amount, category)]>>
                    \o rest
             ELSE rest

\* the anomalies one group appends, in the order of its rows
RECURSIVE GroupAnomalies(_, _, _, _, _)
GroupAnomalies(transactions, category, rows, st, from) ==
    IF from >= Len(transactions) THEN <<>>
    ELSE LET rest == GroupAnomalies(transactions, category, rows, st, from + 1)
         IN  IF /\ from \in rows
                /\ "amount" \in DOMAIN Row(transactions, from)
                /\ IsUnusual(st, Row(transactions, from).amount)
             THEN <<[index  |-> from,
                     score  |-> Score(st, Row(transactions, from).amount),
                     reason |-> Reason(st, Row(transactions, from).amount, category)]>>
                    \o rest
             ELSE rest

\* the body of `for category, group in df.groupby('category')` for one group
AnomaliesOfGroup(transactions, category) ==
    LET rows == GroupRows(transactions, category)
        st   == GroupStats(transactions, rows)
    IN  IF Cardinality(rows) < MinGroupSize THEN <<>>
        ELSE IF StdIsNaN(st) \/ StdIsZero(st) THEN <<>>
        ELSE GroupAnomalies(transactions, category, rows, st, 0)

\* the list `anomalies` after the loop over the groups
RECURSIVE CollectAnomalies(_, _)
CollectAnomalies(transactions, keys) ==
    IF keys = <<>> THEN <<>>
    ELSE AnomaliesOfGroup(transactions, Head(keys))
            \o CollectAnomalies(transactions, Tail(keys))

\* A plausible slip: the list is left in the order the groups produced it.
SortByScoreOmitted(anomalies) == anomalies

\* anomalies.sort(key=lambda x: x['score'], reverse=True): stable
RECURSIVE SortByScore(_)
SortByScore(anomalies) ==
    IF anomalies = <<>> THEN <<>>
    ELSE LET n      == Len(anomalies)
             sorted == SortByScore(SubSeq(anomalies, 1, n - 1))
             x      == anomalies[n]
             p      == Cardinality({i \in 1..Len(sorted) :
                                        ~ScoreLess(sorted[i].score, x.score)})
         IN  SubSeq(sorted, 1, p) \o <<x>> \o SubSeq(sorted, p + 1, Len(sorted))

\* A plausible slip: the limit is not applied.
TopAnomaliesUnlimited(anomalies, n, contamination) == anomalies

\* A plausible slip: the slice keeps the end of the list, anomalies[-max_anomalies:].
TopAnomaliesFromEnd(anomalies, n, contamination) ==
    LET max_anomalies == Max(1, IntTrunc(n * contamination.num, contamination.den))
    IN  SubSeq(anomalies, Max(1, Len(anomalies) - max_anomalies + 1), Len(anomalies))

\* max_anomalies = max(1, int(len(transactions) * contamination));
\* anomalies[:max_anomalies]
TopAnomalies(anomalies, n, contamination) ==
    LET max_anomalies == Max(1, IntTrunc(n * contamination.num, contamination.den))
    IN  SubSeq(anomalies, 1, Min(max_anomalies, Len(anomalies)))

Returned(value) == [raised |-> NoError, value |-> value]
Raised(error) == [raised |-> error, value |-> <<>>]

\* the function once the length check has passed
DetectFromFrame(transactions, contamination) ==
    IF ~({"amount", "category"} \subseteq Columns(transactions)) THEN Returned(<<>>)
    ELSE Returned(TopAnomalies(
            SortByScore(CollectAnomalies(transactions,
                                         SortedKeys(GroupKeys(transactions)))),
            Len(transactions), contamination))

\* A plausible slip: the records are indexed before the length is checked.
detect_amount_anomalies_indexing_first(transactions, contamination) ==
    IF \E i \in 1..Len(transactions) :
            ~({"amount", "category"} \subseteq DOMAIN transactions[i])
    THEN Raised("KeyError")
    ELSE IF Len(transactions) < MinTransactions THEN Returned(<<>>)
    ELSE DetectFromFrame(transactions, contamination)

detect_amount_anomalies(transactions, contamination) ==
    IF Len(transactions) < MinTransactions THEN Returned(<<>>)
    ELSE DetectFromFrame(transactions, contamination)

-----------------------------------------------------------------------------
(* The transaction batches the detector is exercised on                    *)

\* bounds of the model
MaxTail == 2
BulkSmall == 8
BulkLarge == 14
TypicalAmount == 50
Spread == 40

Food == <<"F","o","o","d">>
Bills == <<"B","i","l","l","s">>
DetectorCategories == {Food, Bills}
\* the amounts of the tail: one below and one above the typical amount
Amounts == {TypicalAmount - Spread, TypicalAmount + Spread}

Txn(amount, category) == [amount |-> amount, category |-> category]

\* well-formed records, and records that lack amount, category or both
WellFormedRecords == {Txn(a, c) : a \in Amounts, c \in DetectorCategories}
MalformedRecords ==
    {[amount |-> TypicalAmount + Spread], [category |-> Food], [date |-> "2024-01-15"]}
TailRecords == WellFormedRecords \cup MalformedRecords

Tails == UNION {[1..n -> TailRecords] : n \in 0..MaxTail}

\* n records of the typical amount in one category
Bulk(category, n) == [i \in 1..n |-> Txn(TypicalAmount, category)]
BulkSizes == {0, BulkSmall, BulkLarge}

\* the example of the specification, and batches no record of which holds a key
DocumentedBatch ==
    <<Txn(50, Food), Txn(55, Food), Txn(60, Food), Txn(58, Food), Txn(5000, Food)>>
KeylessBatches == {[i \in 1..MinTransactions |-> r] : r \in MalformedRecords}

\* a bound of the model: a group large enough for one member to lie more than
\* five deviations from the mean
CapBulk == 27

\* one high amount after CapBulk typical ones, and one high amount under the
\* category "food" after BulkLarge typical ones under "Food"
CappedBatch == Bulk(Food, CapBulk) \o <<Txn(TypicalAmount + Spread, Food)>>
MixedCaseBatch == Bulk(Food, BulkLarge) \o <<Txn(TypicalAmount + Spread, Lower(Food))>>

\* one high amount after 4 to 7 typical ones: groups of 5 to 8 members with
\* one member as far from the mean as a member can be
SmallGroupBatches ==
    {Bulk(Food, n) \o <<Txn(TypicalAmount + Spread, Food)>> : n \in 4..7}

Batches ==
    {Bulk(Food, a) \o Bulk(Bills, b) \o t : a \in BulkSizes, b \in BulkSizes, t \in Tails}
        \cup {DocumentedBatch, CappedBatch, MixedCaseBatch} \cup KeylessBatches
        \cup SmallGroupBatches

\* contamination as a fraction: the default 0.05, 1.0, and a negative value
DefaultContamination == [num |-> 1, den |-> 20]
Contaminations == {DefaultContamination, [num |-> 1, den |-> 1], [num |-> -1, den |-> 20]}

-----------------------------------------------------------------------------
(* app.py: the detect-anomalies handler                                    *)

Response(status, body) == [status |-> status, body |-> body]

\* schemas.py: AnomalyDetectionRequest.transactions has min_items=5
AnomalyRequestMinItems == 5

\* schemas.py: AnomalyResult.index has ge=0
AnomalyResultValid(a) == a.index >= 0

\* the lines the handler prints for anomalies[:3]
AnomalyLog(anomalies) ==
    [i \in 1..Min(3, Len(anomalies)) |->
        [index |-> anomalies[i].index, reason |-> anomalies[i].reason]]

\* async def detect_anomalies(request): the response and the printed lines
detect_anomalies_handler(transactions) ==
    IF Len(transactions) < AnomalyRequestMinItems
    THEN [response |-> Response(422, "validation error"), printed |-> <<>>]
    ELSE IF transactions = <<>>
    THEN [response |-> Response(200, <<>>), printed |-> <<>>]
    ELSE IF ~(\A i \in 1..Len(transactions) :
                {"amount", "category"} \subseteq DOMAIN transactions[i])
    THEN [response |-> Response(400, "Each transaction must have 'amount' and 'category' fields"),
          printed |-> <<>>]
    ELSE LET r == detect_amount_anomalies(transactions, DefaultContamination)
         IN  IF r.raised # NoError \/ ~(\A i \in 1..Len(r.value) : AnomalyResultValid(r.value[i]))
             THEN [response |-> Response(500, "Anomaly detection failed"),
                   printed |-> <<"Anomaly detection error">>]
             ELSE [response |-> Response(200, r.value), printed |-> AnomalyLog(r.value)]

-----------------------------------------------------------------------------
(* The model artifact: what joblib.load may return                         *)

\* label_encoder.classes_: the label vocabulary, sorted as LabelEncoder does
Groceries == <<"g","r","o","c","e","r","i","e","s">>
Healthcare == <<"H","e","a","l","t","h","c","a","r","e">>
LabelVocabulary == <<<<"B","i","l","l","s">>, <<"F","o","o","d">>, Healthcare, Groceries>>

\* The fitted pipeline is an opaque artifact: a deterministic function of the
\* cleaned text.  A pipeline of kind "fitted" answers with a row of ProbRows
\* (probabilities in percent) picked by the characters of the text and its
\* seed; one of kind "unnormalised" also answers with values outside [0, 1];
\* one of kind "broken" raises.
ProbRows ==
    << <<90, 5, 3, 2>>, <<40, 30, 20, 10>>, <<25, 25, 25, 25>>,
       <<0, 0, 100, 0>>, <<3, 2, 5, 90>> >>
OutOfRangeRow == <<120, -20, 0, 0>>

Pipelines ==
    {[kind |-> "fitted", seed |-> 0], [kind |-> "fitted", seed |-> 1],
     [kind |-> "unnormalised", seed |-> 0], [kind |-> "broken", seed |-> 0]}

RECURSIVE TextWeight(_)
TextWeight(text) == IF text = <<>> THEN 0 ELSE Ord(Head(text)) + TextWeight(Tail(text))

\* pipeline.predict_proba for one cleaned text
PredictProba(pipeline, text) ==
    LET w == TextWeight(text) + pipeline.seed
    IN  IF pipeline.kind = "unnormalised" /\ w % 2 = 1 THEN OutOfRangeRow
        ELSE ProbRows[(w % Len(ProbRows)) + 1]

\* probabilities.max(axis=1) for one row
MaxOfRow(row) == CHOOSE v \in {row[i] : i \in 1..Len(row)} : \A j \in 1..Len(row) : row[j] <= v

\* pipeline.predict for one cleaned text: the first class of largest probability
Predict(pipeline, text) ==
    LET row == PredictProba(pipeline, text)
    IN  (CHOOSE i \in 1..Len(row) :
            /\ row[i] = MaxOfRow(row)
            /\ \A j \in 1..(i - 1) : row[j] < row[i]) - 1

\* the dict train_model.py saves
Bundle(pipeline) ==
    [pipeline |-> pipeline, label_encoder |-> LabelVocabulary,
     categories |-> LabelVocabulary, version |-> "1.0.0",
     features |-> "max_features, ngram_range"]

\* artifacts that lack the version tag, or the label encoder
VersionlessArtifact ==
    [pipeline |-> [kind |-> "fitted", seed |-> 0], label_encoder |-> LabelVocabulary,
     categories |-> LabelVocabulary]
IncompleteArtifact ==
    [pipeline |-> [kind |-> "fitted", seed |-> 0], categories |-> LabelVocabulary,
     version |-> "1.0.0"]

\* an artifact whose label encoder knows fewer classes than the pipeline predicts
ShortVocabularyArtifact ==
    [pipeline |-> [kind |-> "fitted", seed |-> 0],
     label_encoder |-> SubSeq(LabelVocabulary, 1, 2),
     categories |-> SubSeq(LabelVocabulary, 1, 2), version |-> "1.0.0"]

Artifacts ==
    {Bundle(p) : p \in Pipelines}
        \cup {VersionlessArtifact, IncompleteArtifact, ShortVocabularyArtifact}

\* the file at MODEL_PATH: absent, not deserializable, or holding an artifact
ModelFiles ==
    {[exists |-> FALSE], [exists |-> TRUE, loads |-> FALSE]}
        \cup {[exists |-> TRUE, loads |-> TRUE, artifact |-> a] : a \in Artifacts}

\* load_model: required_keys
required_keys == {"pipeline", "label_encoder", "categories"}

\* A plausible slip: the failure of the validation is logged and the process
\* goes on to serve.
load_model_result_logging_only(bundle, file) ==
    IF ~file.exists THEN [model_bundle |-> bundle, phase |-> "exited"]
    ELSE IF ~file.loads THEN [model_bundle |-> bundle, phase |-> "exited"]
    ELSE [model_bundle |-> file.artifact, phase |-> "serving"]

\* async def load_model(): the bundle and the phase it leaves
load_model_result(bundle, file) ==
    IF ~file.exists THEN [model_bundle |-> bundle, phase |-> "exited"]
    ELSE IF ~file.loads THEN [model_bundle |-> bundle, phase |-> "exited"]
    ELSE IF ~(required_keys \subseteq DOMAIN file.artifact)
    THEN [model_bundle |-> file.artifact, phase |-> "exited"]
    ELSE [model_bundle |-> file.artifact, phase |-> "serving"]

-----------------------------------------------------------------------------
(* schemas.py: validation of the inference requests and results            *)

SimpleTextMinItems == 1
SimpleTextMaxItems == 100
PredictionRequestMinItems == 1
PredictionRequestMaxItems == 1000
DescriptionMinLength == 1
DescriptionMaxLength == 500

Invalid == [ok |-> FALSE]
Valid(value) == [ok |-> TRUE, value |-> value]

\* [desc.strip() for desc in v if desc.strip()]
RECURSIVE StripNonBlank(_)
StripNonBlank(v) ==
    IF v = <<>> THEN <<>>
    ELSE (IF Strip(Head(v)) # <<>> THEN <<Strip(Head(v))>> ELSE <<>>)
            \o StripNonBlank(Tail(v))

\* SimpleTextRequest: min_items, max_items and the validator clean_descriptions
SimpleTextRequest(descriptions) ==
    IF Len(descriptions) < SimpleTextMinItems \/ Len(descriptions) > SimpleTextMaxItems
    THEN Invalid
    ELSE IF StripNonBlank(descriptions) = <<>> THEN Invalid
    ELSE Valid(StripNonBlank(descriptions))

\* TransactionInput: the field constraints and the validator clean_description
TransactionInputValid(t) ==
    /\ Len(t.description) >= DescriptionMinLength
    /\ Len(t.description) <= DescriptionMaxLength
    /\ t.amount > 0
    /\ t.type \in {"DEBIT", "CREDIT"}
    /\ Strip(t.description) # <<>>

\* PredictionRequest: min_items, max_items, and every transaction validated
PredictionRequest(transactions) ==
    IF \/ Len(transactions) < PredictionRequestMinItems
       \/ Len(transactions) > PredictionRequestMaxItems
       \/ \E i \in 1..Len(transactions) : ~TransactionInputValid(transactions[i])
    THEN Invalid
    ELSE Valid([i \in 1..Len(transactions) |->
                    [transactions[i] EXCEPT !.description = Strip(@)]])

\* A plausible slip: the bounds of the confidence field are not declared.
PredictionResultValidUnbounded(r) == TRUE

\* PredictionResult.confidence: ge=0.0, le=1.0 (in percent)
PredictionResultValid(r) == r.confidence >= 0 /\ r.confidence <= 100

-----------------------------------------------------------------------------
(* app.py: the inference handlers                                          *)

\* what the body of a handler's try block ends with
Success(value, printed) == [kind |-> "return", value |-> value, printed |-> printed]
HttpException(status, detail) == [kind |-> "http", status |-> status, detail |-> detail]
\* an exception that is not an HTTPException, with its message and the lines
\* printed before it was raised
Failure(error, printed) == [kind |-> "error", error |-> error, printed |-> printed]

\* the confidence threshold of the low-confidence log line, in percent
LowConfidence == 50

\* label_encoder.inverse_transform(predictions) raises ValueError when a
\* predicted index is not one of its classes
UnseenLabel(bundle, cleaned_descriptions) ==
    \E i \in 1..Len(cleaned_descriptions) :
        Predict(bundle.pipeline, cleaned_descriptions[i]) + 1 > Len(bundle.label_encoder)

\* the results of the loop over zip(predicted_categories, confidences)
PredictionResults(bundle, cleaned_descriptions) ==
    [i \in 1..Len(cleaned_descriptions) |->
        [category   |-> standardize_category(
                            bundle.label_encoder[Predict(bundle.pipeline,
                                                         cleaned_descriptions[i]) + 1]),
         confidence |-> MaxOfRow(PredictProba(bundle.pipeline, cleaned_descriptions[i]))]]

\* the try block of predict_categories
predict_categories_body(bundle, descriptions) ==
    IF bundle = None
    THEN HttpException(503, "ML model not loaded. Please restart the service.")
    ELSE IF ~({"pipeline", "label_encoder"} \subseteq DOMAIN bundle)
    THEN Failure("KeyError", <<>>)
    ELSE IF bundle.pipeline.kind = "broken" THEN Failure("pipeline cannot predict", <<>>)
    ELSE IF UnseenLabel(bundle, preprocess_descriptions(descriptions))
    THEN Failure("y contains previously unseen labels", <<>>)
    ELSE LET results == PredictionResults(bundle, preprocess_descriptions(descriptions))
         IN  IF \E i \in 1..Len(results) : ~PredictionResultValid(results[i])
             THEN Failure("confidence out of range", <<>>)
             ELSE Success(results, <<>>)

\* A plausible slip: the labels are returned as the model gives them.
PredictionResultsRawLabels(bundle, cleaned_descriptions) ==
    [i \in 1..Len(cleaned_descriptions) |->
        [category   |-> bundle.label_encoder[Predict(bundle.pipeline,
                                                     cleaned_descriptions[i]) + 1],
         confidence |-> MaxOfRow(PredictProba(bundle.pipeline, cleaned_descriptions[i]))]]

\* the results of the loop of predict_batch
BatchPredictionResults(bundle, cleaned_descriptions) ==
    PredictionResults(bundle, cleaned_descriptions)

\* what the low-confidence line of item i holds
LowConfidenceLine(bundle, descriptions, i) ==
    LET cleaned == clean_text(descriptions[i])
    IN  [description |-> descriptions[i],
         category    |-> bundle.label_encoder[Predict(bundle.pipeline, cleaned) + 1],
         confidence  |-> MaxOfRow(PredictProba(bundle.pipeline, cleaned))]

IsLowConfidence(line) == line.confidence < LowConfidence

\* the lines predict_batch prints for the results of confidence < 0.5 among
\* the items i..last
LowConfidenceLog(bundle, descriptions, i, last) ==
    SelectSeq([k \in 1..(last - i + 1) |-> LowConfidenceLine(bundle, descriptions, i + k - 1)],
              IsLowConfidence)

\* the try block of predict_batch.  The line of an item is printed before its
\* PredictionResult is built, so the lines of the items up to the first one
\* that fails validation are out when the error is raised.
predict_batch_body(bundle, transactions) ==
    IF bundle = None THEN HttpException(503, "ML model not loaded")
    ELSE LET descriptions == [i \in 1..Len(transactions) |-> transactions[i].description]
         IN  IF ~({"pipeline", "label_encoder"} \subseteq DOMAIN bundle)
             THEN Failure("KeyError", <<>>)
             ELSE IF bundle.pipeline.kind = "broken"
             THEN Failure("pipeline cannot predict", <<>>)
             ELSE IF UnseenLabel(bundle, preprocess_descriptions(descriptions))
             THEN Failure("y contains previously unseen labels", <<>>)
             ELSE LET results ==
                          BatchPredictionResults(bundle, preprocess_descriptions(descriptions))
                      first_bad ==
                          CHOOSE i \in 1..(Len(results) + 1) :
                              /\ i <= Len(results) => ~PredictionResultValid(results[i])
                              /\ \A j \in 1..(i - 1) : PredictionResultValid(results[j])
                  IN  IF first_bad <= Len(results)
                      THEN Failure("confidence out of range",
                                   LowConfidenceLog(bundle, descriptions, 1, first_bad))
                      ELSE Success(results,
                                   LowConfidenceLog(bundle, descriptions, 1, Len(results)))

\* the lines of an except block: the error line and traceback.print_exc()
ErrorLog(what, error) == <<[line |-> what, cause |-> error], [line |-> "traceback"]>>

\* A plausible slip: no `except Exception` clause, so that the error is left to
\* general_exception_handler.
HandlerOutcomeUncaught(r, what) ==
    IF r.kind = "return"
    THEN [response |-> Response(200, r.value), printed |-> r.printed]
    ELSE IF r.kind = "http"
    THEN [response |-> Response(r.status, r.detail), printed |-> <<>>]
    ELSE [response |-> Response(500, <<"Internal server error">>),
          printed  |-> r.printed \o ErrorLog("Unexpected error", r.error)]

\* A plausible slip: no `except HTTPException: raise` before the catch-all.
HandlerOutcomeCatchAll(r, what) ==
    IF r.kind = "return"
    THEN [response |-> Response(200, r.value), printed |-> r.printed]
    ELSE IF r.kind = "http"
    THEN [response |-> Response(500, <<what, " failed: ", r.detail>>),
          printed  |-> ErrorLog(what, r.detail)]
    ELSE [response |-> Response(500, <<what, " failed: ", r.error>>),
          printed  |-> r.printed \o ErrorLog(what, r.error)]

\* except HTTPException: raise / except Exception: status 500 with the detail
\* f"{what} failed: {str(e)}"
HandlerOutcome(r, what) ==
    IF r.kind = "return"
    THEN [response |-> Response(200, r.value), printed |-> r.printed]
    ELSE IF r.kind = "http"
    THEN [response |-> Response(r.status, r.detail), printed |-> <<>>]
    ELSE [response |-> Response(500, <<what, " failed: ", r.error>>),
          printed  |-> r.printed \o ErrorLog(what, r.error)]

\* POST /predict, from the request as submitted
predict_categories_handler(bundle, descriptions) ==
    LET request == SimpleTextRequest(descriptions)
    IN  IF ~request.ok
        THEN [response |-> Response(422, "validation error"), printed |-> <<>>]
        ELSE HandlerOutcome(predict_categories_body(bundle, request.value), "Prediction")

\* POST /predict-batch, from the request as submitted
predict_batch_handler(bundle, transactions) ==
    LET request == PredictionRequest(transactions)
    IN  IF ~request.ok
        THEN [response |-> Response(422, "validation error"), printed |-> <<>>]
        ELSE HandlerOutcome(predict_batch_body(bundle, request.value), "Batch prediction")

\* GET /health
health_check_handler(bundle, now) ==
    [status |-> "healthy", model_loaded |-> bundle # None, timestamp |-> now,
     version |-> "1.0.0"]

-----------------------------------------------------------------------------
(* The requests the inference handlers are exercised on                    *)

\* a bound of the model
MaxBatch == 3

\* descriptions: a word, a blank, one that normalizes to the empty string, one
\* with a noise word and padding
Descriptions ==
    {<<"W","a","l","m","a","r","t">>, <<" "," ">>, <<"#","1","2">>, <<" ","P","O","S"," ","U","b","e","r"," ">>, <<"g","a","s">>}
DescriptionLists == UNION {[1..n -> Descriptions] : n \in 0..MaxBatch}

TransactionInput(description, amount, type) ==
    [description |-> description, amount |-> amount, date |-> "2024-01-15", type |-> type]

\* transactions with each description, one without a positive amount and one
\* with an unknown type
TransactionInputs ==
    {TransactionInput(d, 10, "DEBIT") : d \in Descriptions}
        \cup {TransactionInput(<<"g","a","s">>, 0, "CREDIT"),
              TransactionInput(<<"g","a","s">>, 10, "REFUND")}
\* one more record than /predict accepts descriptions
LongTransactions ==
    [i \in 1..(SimpleTextMaxItems + 1) |-> TransactionInput(<<"g","a","s">>, 10, "DEBIT")]
TransactionLists ==
    UNION {[1..n -> TransactionInputs] : n \in 0..MaxBatch} \cup {LongTransactions}

\* the values of datetime.now() the model tells apart
Clock == {"t1", "t2"}

-----------------------------------------------------------------------------
(* The labels standardize_category is exercised on                         *)

\* a bound of the model: the spaces put before and after a label
MaxPad == 1

UnknownLabels == {<<"u","n","k","n","o","w","n","l","a","b","e","l">>, <<"h","e","a","l","t","h","c","a","r","e">>, <<"o","t","h","e","r">>}
Spaces(n) == [i \in 1..n |-> " "]
LabelInputs ==
    {Spaces(l) \o v \o Spaces(r) :
        v \in UNION {{b, Upper(b), Capitalize(b)} : b \in CategoryMapKeys \cup UnknownLabels},
        l \in 0..MaxPad, r \in 0..MaxPad}
        \cup {Spaces(n) : n \in 0..MaxPad}

-----------------------------------------------------------------------------
(* The values clean_text is exercised on                                   *)

\* a bound of the model: the phrases put together into one description
MaxPhrases == 2

\* words in both cases, a numeric-ID marker, a date, letters around a digit and
\* around a hyphen, a word that begins like a URL, a URL, an email address, a
\* noise word, a phrase with repeated whitespace, the empty phrase, and a noise
\* word and a word that begins with "http" with a digit inside
Phrases ==
    {<<"W","A","L","M","A","R","T">>,
     <<"s","t","o","r","e">>,
     <<"#","5","2","3","4">>,
     <<"P","U","R","C","H","A","S","E">>,
     <<"0","1","/","1","5","/","2","0","2","4">>,
     <<"a","b","c","1","d","e","f">>,
     <<"a","b","c","-","d","e","f">>,
     <<"H","T","T","P","S">>,
     <<"w","w","w",".","s","h","o","p",".","c","o","m">>,
     <<"a","@","b",".","c","o">>,
     <<"p","o","s">>,
     <<"S","h","e","l","l"," ","\t"," ","G","a","s">>,
     <<>>,
     <<"p","u","r","5","c","h","a","s","e">>,
     <<"h","t","1","t","p","d">>}

\* the example of the specification
DocumentedDescription ==
    <<"W","A","L","M","A","R","T"," ","S","T","O","R","E"," ","#","5","2","3","4"," ","-"," ","P","U","R","C","H","A","S","E"," ","0","1","/","1","5","/","2","0","2","4">>

RECURSIVE JoinPhrases(_)
JoinPhrases(ps) ==
    IF ps = <<>> THEN <<>>
    ELSE IF Len(ps) = 1 THEN ps[1]
    ELSE ps[1] \o <<" ">> \o JoinPhrases(Tail(ps))

RawTexts ==
    {JoinPhrases(ps) : ps \in UNION {[1..n -> Phrases] : n \in 1..MaxPhrases}}
        \cup {DocumentedDescription}

\* strings, and the values None and 5234
CleanTextArguments == {StrValue(t) : t \in RawTexts} \cup {NoneValue, IntValue(5234)}

-----------------------------------------------------------------------------
(* The state machine                                                       *)

NoCall == [op |-> "none"]

\* a bound of the model: the requests the server handles at the same time
MaxInflight == 2
Slots == 1..MaxInflight
\* no request is being handled in a slot
Idle == [pc |-> "idle"]

Init ==
    /\ model_bundle = None
    /\ phase = "starting"
    /\ call = NoCall
    /\ outcome = NoCall
    /\ diag = <<>>
    /\ inflight = [s \in Slots |-> Idle]

\* a direct call of utils.detect_amount_anomalies
call_detect_amount_anomalies ==
    /\ phase # "exited"
    /\ call = NoCall
    /\ \E transactions \in Batches, contamination \in Contaminations :
        /\ call' = [op |-> "detect_amount_anomalies",
                    transactions |-> transactions, contamination |-> contamination]
        /\ outcome' = detect_amount_anomalies(transactions, contamination)
        /\ diag' = <<>>
        /\ UNCHANGED <<model_bundle, phase, inflight>>

\* A plausible slip: the endpoint refuses to work before the model is loaded,
\* as the inference endpoints do.
detect_anomalies_requiring_model ==
    /\ phase # "exited"
    /\ call = NoCall
    /\ \E transactions \in Batches :
        LET h == detect_anomalies_handler(transactions)
        IN  /\ call' = [op |-> "detect_anomalies", transactions |-> transactions]
            /\ outcome' = IF model_bundle = None
                          THEN Response(503, "ML model not loaded") ELSE h.response
            /\ diag' = IF model_bundle = None THEN <<>> ELSE h.printed
            /\ UNCHANGED <<model_bundle, phase, inflight>>

\* POST /detect-anomalies
detect_anomalies ==
    /\ phase # "exited"
    /\ call = NoCall
    /\ \E transactions \in Batches :
        LET h == detect_anomalies_handler(transactions)
        IN  /\ call' = [op |-> "detect_anomalies", transactions |-> transactions]
            /\ outcome' = h.response
            /\ diag' = h.printed
            /\ UNCHANGED <<model_bundle, phase, inflight>>

\* the operation invoked last has returned to its caller; the process is idle
\* again and keeps nothing of the request but model_bundle
Return ==
    /\ call # NoCall
    /\ call' = NoCall
    /\ outcome' = NoCall
    /\ diag' = <<>>
    /\ UNCHANGED <<model_bundle, phase, inflight>>

NextDetector == call_detect_amount_anomalies \/ detect_anomalies \/ Return

\* the startup event
load_model ==
    /\ phase = "starting"
    /\ call = NoCall
    /\ \E file \in ModelFiles :
        LET r == load_model_result(model_bundle, file)
        IN  /\ model_bundle' = r.model_bundle
            /\ phase' = r.phase
            /\ call' = [op |-> "load_model", file |-> file]
            /\ outcome' = [exit |-> IF r.phase = "exited" THEN 1 ELSE 0]
            /\ diag' = <<>>
            /\ UNCHANGED inflight

\* POST /predict.  A handler is a plain function of the app: nothing in the
\* code keeps it from being called before the startup event has run.
predict_categories ==
    /\ phase # "exited"
    /\ call = NoCall
    /\ \E descriptions \in DescriptionLists :
        LET h == predict_categories_handler(model_bundle, descriptions)
        IN  /\ call' = [op |-> "predict_categories", descriptions |-> descriptions]
            /\ outcome' = h.response
            /\ diag' = h.printed
            /\ UNCHANGED <<model_bundle, phase, inflight>>

\* POST /predict-batch
predict_batch ==
    /\ phase # "exited"
    /\ call = NoCall
    /\ \E transactions \in TransactionLists :
        LET h == predict_batch_handler(model_bundle, transactions)
        IN  /\ call' = [op |-> "predict_batch", transactions |-> transactions]
            /\ outcome' = h.response
            /\ diag' = h.printed
            /\ UNCHANGED <<model_bundle, phase, inflight>>

\* GET /health
health_check ==
    /\ phase # "exited"
    /\ call = NoCall
    /\ \E now \in Clock :
        /\ call' = [op |-> "health_check"]
        /\ outcome' = health_check_handler(model_bundle, now)
        /\ diag' = <<>>
        /\ UNCHANGED <<model_bundle, phase, inflight>>

NextInference == load_model \/ predict_categories \/ predict_batch \/ health_check \/ Return

SpecInference == Init /\ [][NextInference]_vars

\* a direct call of utils.standardize_category
call_standardize_category ==
    /\ phase # "exited"
    /\ call = NoCall
    /\ \E category \in LabelInputs :
        /\ call' = [op |-> "standardize_category", category |-> category]
        /\ outcome' = Returned(standardize_category(category))
        /\ diag' = <<>>
        /\ UNCHANGED <<model_bundle, phase, inflight>>

NextStandardize == call_standardize_category \/ Return

SpecStandardize == Init /\ [][NextStandardize]_vars

\* a direct call of utils.clean_text
call_clean_text ==
    /\ phase # "exited"
    /\ call = NoCall
    /\ \E text \in CleanTextArguments :
        /\ call' = [op |-> "clean_text", text |-> text]
        /\ outcome' = clean_text_call(text)
        /\ diag' = <<>>
        /\ UNCHANGED <<model_bundle, phase, inflight>>

NextNormalizer == call_clean_text \/ Return

SpecNormalizer == Init /\ [][NextNormalizer]_vars

\* Requests handled at the same time.  The handlers are coroutines run by
\* one event loop; the model lets the steps of different requests interleave
\* at every read of the global model_bundle, which is finer than the loop
\* does.  A request is dispatched, reads model_bundle as often as its handler
\* names it, builds its response from what it read, and is delivered.
ConcurrentRequests ==
    {[op |-> "predict_categories",
      input |-> <<<<"W","a","l","m","a","r","t">>>>],
     [op |-> "predict_batch", input |-> <<TransactionInput(<<"g","a","s">>, 10, "DEBIT")>>],
     [op |-> "health_check", input |-> "t1"],
     [op |-> "detect_anomalies",
      input |-> Bulk(Food, BulkSmall) \o <<Txn(TypicalAmount + Spread, Food)>>]}

\* how often a handler names model_bundle: the test for None, ['pipeline']
\* and ['label_encoder'] in the inference handlers, the test for None in
\* health_check, never in detect_anomalies
BundleReads(op) ==
    CASE op = "predict_categories" -> 3
      [] op = "predict_batch" -> 3
      [] op = "health_check" -> 1
      [] op = "detect_anomalies" -> 0

\* the reads a request still makes: none after it found None, none after a
\* key was missing
ReadsLeft(r) ==
    IF r.seen # <<>> /\ r.seen[1] = None THEN 0
    ELSE IF Len(r.seen) = 2 /\ "pipeline" \notin DOMAIN r.seen[2] THEN 0
    ELSE BundleReads(r.request.op) - Len(r.seen)

\* the bundle an inference handler works with: the pipeline of its second
\* read and the label encoder of its third
BundleAsRead(seen) ==
    IF seen[1] = None THEN None
    ELSE [k \in {x \in {"pipeline"} : Len(seen) >= 2 /\ x \in DOMAIN seen[2]}
                 \cup {x \in {"label_encoder"} : Len(seen) >= 3 /\ x \in DOMAIN seen[3]} |->
            IF k = "pipeline" THEN seen[2].pipeline ELSE seen[3].label_encoder]

\* the response of a request from the values it read
ConcurrentResponse(request, seen) ==
    CASE request.op = "predict_categories" ->
            predict_categories_handler(BundleAsRead(seen), request.input).response
      [] request.op = "predict_batch" ->
            predict_batch_handler(BundleAsRead(seen), request.input).response
      [] request.op = "health_check" -> health_check_handler(seen[1], request.input)
      [] request.op = "detect_anomalies" -> detect_anomalies_handler(request.input).response

\* the server accepts a request
dispatch(s) ==
    /\ phase # "exited"
    /\ inflight[s] = Idle
    /\ \E request \in ConcurrentRequests :
        inflight' = [inflight EXCEPT ![s] =
                        [pc |-> "running", request |-> request, seen |-> <<>>,
                         at_dispatch |-> model_bundle]]
    /\ UNCHANGED <<model_bundle, phase, call, outcome, diag>>

\* the handler evaluates an expression that names model_bundle
read_model_bundle(s) ==
    /\ phase # "exited"
    /\ inflight[s].pc = "running"
    /\ ReadsLeft(inflight[s]) > 0
    /\ inflight' = [inflight EXCEPT ![s].seen = Append(@, model_bundle)]
    /\ UNCHANGED <<model_bundle, phase, call, outcome, diag>>

\* A plausible slip: predict_batch takes the label encoder out of the dict
\* with model_bundle.pop('label_encoder').
respond_popping(s) ==
    /\ phase # "exited"
    /\ inflight[s].pc = "running"
    /\ ReadsLeft(inflight[s]) = 0
    /\ inflight' = [inflight EXCEPT ![s] =
                        [pc |-> "done", request |-> @.request, seen |-> @.seen,
                         at_dispatch |-> @.at_dispatch,
                         response |-> ConcurrentResponse(@.request, @.seen)]]
    /\ model_bundle' =
            IF inflight[s].request.op = "predict_batch" /\ model_bundle # None
            THEN [k \in DOMAIN model_bundle \ {"label_encoder"} |-> model_bundle[k]]
            ELSE model_bundle
    /\ UNCHANGED <<phase, call, outcome, diag>>

\* the handler runs to its return or raise.  No handler has a global
\* statement or stores into the dict: model_bundle is left as it is.
respond(s) ==
    /\ phase # "exited"
    /\ inflight[s].pc = "running"
    /\ ReadsLeft(inflight[s]) = 0
    /\ inflight' = [inflight EXCEPT ![s] =
                        [pc |-> "done", request |-> @.request, seen |-> @.seen,
                         at_dispatch |-> @.at_dispatch,
                         response |-> ConcurrentResponse(@.request, @.seen)]]
    /\ UNCHANGED <<model_bundle, phase, call, outcome, diag>>

\* the response is sent
deliver(s) ==
    /\ inflight[s].pc = "done"
    /\ inflight' = [inflight EXCEPT ![s] = Idle]
    /\ UNCHANGED <<model_bundle, phase, call, outcome, diag>>

NextConcurrent ==
    \/ load_model
    \/ \E s \in Slots : dispatch(s)
    \/ \E s \in Slots : read_model_bundle(s)
    \/ \E s \in Slots : respond(s)
    \/ \E s \in Slots : deliver(s)

SpecConcurrent == Init /\ [][NextConcurrent]_vars

\* the service: startup, the anomaly endpoint and the health endpoint
NextService == load_model \/ detect_anomalies \/ health_check \/ Return

SpecService == Init /\ [][NextService]_vars

Next == NextDetector \/ NextInference \/ NextStandardize \/ NextNormalizer \/ NextConcurrent

Spec == Init /\ [][Next]_vars

SpecDetector == Init /\ [][NextDetector]_vars

-----------------------------------------------------------------------------
(* Properties of detect_amount_anomalies                                   *)

DetectorCalled == call.op = "detect_amount_anomalies"
DetectorReturned == DetectorCalled /\ outcome.raised = NoError

Malformed(t) == ~({"amount", "category"} \subseteq DOMAIN t)
HasMalformed(transactions) ==
    \E i \in 1..Len(transactions) : Malformed(transactions[i])

\* C1: for the five Food records 50, 55, 60, 58, 5000 and the default
\* contamination the detector returns exactly one anomaly, with index 4 and a
\* reason that says "high" and names Food.
C1_DocumentedExampleFlagged ==
    (/\ DetectorCalled
     /\ call.transactions = DocumentedBatch
     /\ call.contamination = DefaultContamination)
        => /\ outcome.raised = NoError
           /\ Len(outcome.value) = 1
           /\ outcome.value[1].index = 4
           /\ outcome.value[1].reason.direction = "high"
           /\ outcome.value[1].reason.category = Food

\* what the code returns for that batch: nothing
C1_DocumentedExampleEmpty ==
    /\ DetectorCalled
    /\ call.transactions = DocumentedBatch
    /\ call.contamination = DefaultContamination
    /\ outcome = Returned(<<>>)

SortedByScoreDescending(value) ==
    \A i, j \in 1..Len(value) : i < j => ~ScoreLess(value[i].score, value[j].score)

\* C2 as stated: the returned list is sorted by score in descending order and
\* two anomalies of equal score appear in the order of their input positions,
\* also across categories.
C2_TiesInInputOrder ==
    DetectorReturned =>
        /\ SortedByScoreDescending(outcome.value)
        /\ \A i, j \in 1..Len(outcome.value) :
                (i < j /\ outcome.value[i].score = outcome.value[j].score)
                    => outcome.value[i].index < outcome.value[j].index

CategoryOfIndex(idx) == Row(call.transactions, idx).category

\* C2 as amended: the returned list is sorted by score in descending order;
\* of two anomalies of equal score the one whose category string is the
\* smaller comes first, and within one category the one with the smaller
\* input position comes first.
C2_TiesInGroupOrder ==
    DetectorReturned =>
        /\ SortedByScoreDescending(outcome.value)
        /\ \A i, j \in 1..Len(outcome.value) :
                (i < j /\ outcome.value[i].score = outcome.value[j].score)
                    => \/ StrLess(CategoryOfIndex(outcome.value[i].index),
                                  CategoryOfIndex(outcome.value[j].index))
                       \/ /\ CategoryOfIndex(outcome.value[i].index)
                                = CategoryOfIndex(outcome.value[j].index)
                          /\ outcome.value[i].index < outcome.value[j].index

\* two anomalies of equal score from different categories have been returned
C2_TieAcrossCategories ==
    /\ DetectorReturned
    /\ \E i, j \in 1..Len(outcome.value) :
            /\ i < j
            /\ outcome.value[i].score = outcome.value[j].score
            /\ CategoryOfIndex(outcome.value[i].index)
                    # CategoryOfIndex(outcome.value[j].index)

\* C3: a call with at least 5 records one of which lacks amount or category
\* fails with InvalidInput and returns no list.
C3_MalformedBatchRejected ==
    (/\ DetectorCalled
     /\ Len(call.transactions) >= MinTransactions
     /\ HasMalformed(call.transactions))
        => outcome.raised = "InvalidInput"

\* what the code does instead: it returns anomalies of the well-formed records
C3_MalformedBatchScored ==
    /\ DetectorReturned
    /\ HasMalformed(call.transactions)
    /\ outcome.value # <<>>

\* C4: the number of anomalies returned for n transactions and contamination
\* c is at most max(1, floor(n * c)).
C4_LengthWithinLimit ==
    DetectorReturned =>
        Len(outcome.value)
            <= Max(1, (Len(call.transactions) * call.contamination.num)
                            \div call.contamination.den)

\* more records were flagged than the limit lets through
C4_Truncated ==
    /\ DetectorReturned
    /\ Len(outcome.value) >= 1
    /\ Len(CollectAnomalies(call.transactions, SortedKeys(GroupKeys(call.transactions))))
            > Len(outcome.value)

GroupMembers(transactions, idx) ==
    {i \in RowIndex(transactions) :
        /\ {"amount", "category"} \subseteq DOMAIN Row(transactions, i)
        /\ Row(transactions, i).category = Row(transactions, idx).category}

\* at least two amounts, all of them the same: the sample deviation is zero
ConstantGroup(transactions, idx) ==
    /\ Cardinality(GroupMembers(transactions, idx)) >= 2
    /\ \A i, j \in GroupMembers(transactions, idx) :
            Row(transactions, i).amount = Row(transactions, j).amount

\* C6: no returned anomaly has an index that belongs to a category group
\* whose amounts are all identical, whatever is found in the other groups.
C6_NoAnomalyFromConstantGroup ==
    DetectorReturned =>
        \A i \in 1..Len(outcome.value) :
            /\ "category" \in DOMAIN Row(call.transactions, outcome.value[i].index)
            /\ ~ConstantGroup(call.transactions, outcome.value[i].index)

\* a batch with a constant group of at least 3 records, and an anomaly found
\* in another group
C6_AnomalyBesideConstantGroup ==
    /\ DetectorReturned
    /\ outcome.value # <<>>
    /\ \E idx \in RowIndex(call.transactions) :
            /\ {"amount", "category"} \subseteq DOMAIN Row(call.transactions, idx)
            /\ ConstantGroup(call.transactions, idx)
            /\ Cardinality(GroupMembers(call.transactions, idx)) >= MinGroupSize

-----------------------------------------------------------------------------
(* The inference operations                                                *)

\* schemas.py: the values of the enum CategoryType
CategoryType ==
    {<<"F","o","o","d">>,
     <<"T","r","a","n","s","p","o","r","t","a","t","i","o","n">>,
     <<"E","n","t","e","r","t","a","i","n","m","e","n","t">>,
     <<"S","h","o","p","p","i","n","g">>,
     <<"B","i","l","l","s">>,
     <<"I","n","c","o","m","e">>,
     <<"T","r","a","v","e","l">>,
     <<"T","r","a","n","s","f","e","r">>,
     <<"I","n","s","u","r","a","n","c","e">>,
     <<"I","n","v","e","s","t","m","e","n","t">>,
     <<"O","t","h","e","r">>}

PredictCalled == call # NoCall /\ call.op = "predict_categories"
BatchCalled == call # NoCall /\ call.op = "predict_batch"

\* the descriptions as submitted to the operation called
Submitted ==
    IF PredictCalled THEN call.descriptions
    ELSE [i \in 1..Len(call.transactions) |-> call.transactions[i].description]

\* the prediction of the loaded model for one description
PredictionFor(description) ==
    PredictionResults(model_bundle, <<clean_text(description)>>)[1]

\* C7: every list of predictions the predict operation returns is as long as
\* the list of descriptions submitted, and its i-th element is the prediction
\* for the i-th description submitted.
C7_OnePredictionPerDescription ==
    (PredictCalled /\ outcome.status = 200)
        => /\ Len(outcome.body) = Len(call.descriptions)
           /\ \A i \in 1..Len(outcome.body) :
                outcome.body[i] = PredictionFor(call.descriptions[i])

\* C7: a batch with a blank description between two others is answered with
\* fewer predictions than descriptions.
C7_BlankDescriptionDropped ==
    /\ PredictCalled
    /\ outcome.status = 200
    /\ Len(outcome.body) < Len(call.descriptions)

\* the request passed validation, so the handler itself was called
HandlerEntered == (PredictCalled \/ BatchCalled) /\ outcome.status # 422

\* C8: an inference operation (predict or predict-batch) called while
\* model_bundle is None ends with status 503, prints no error line, and is
\* never answered with the catch-all's status 500.
C8_UnloadedModelUnavailable ==
    (HandlerEntered /\ model_bundle = None)
        => /\ outcome.status = 503
           /\ outcome.status # 500
           /\ diag = <<>>

\* C8: predict-batch was called with a valid request before any bundle was
\* loaded, and answered 503.
C8_BatchBeforeLoad ==
    /\ BatchCalled
    /\ model_bundle = None
    /\ PredictionRequest(call.transactions).ok
    /\ outcome.status = 503

\* the class-probability vector the loaded model produces for a description
ProbabilityVector(description) ==
    PredictProba(model_bundle.pipeline, clean_text(Strip(description)))

\* the descriptions the predictions returned stand for
Scored == IF PredictCalled THEN StripNonBlank(call.descriptions) ELSE Submitted

\* C9: every PredictionResult an inference operation returns has a confidence
\* in [0, 1] (0..100 percent) equal to the largest entry of the probability
\* vector the model produced for that item.
C9_ConfidenceIsMaxProbability ==
    ((PredictCalled \/ BatchCalled) /\ outcome.status = 200)
        => /\ Len(outcome.body) = Len(Scored)
           /\ \A i \in 1..Len(outcome.body) :
                LET row == ProbabilityVector(Scored[i])
                    confidence == outcome.body[i].confidence
                IN  /\ confidence >= 0
                    /\ confidence <= 100
                    /\ \E j \in 1..Len(row) : row[j] = confidence
                    /\ \A j \in 1..Len(row) : row[j] <= confidence

\* C9: a pipeline that can give values outside [0, 1] returned results, one of
\* confidence below one half.
C9_LowConfidenceReturned ==
    /\ BatchCalled
    /\ outcome.status = 200
    /\ model_bundle.pipeline.kind = "unnormalised"
    /\ \E i \in 1..Len(outcome.body) : outcome.body[i].confidence < LowConfidence

-----------------------------------------------------------------------------
(* standardize_category                                                    *)

StandardizeCalled == call # NoCall /\ call.op = "standardize_category"

\* the value the synonym table holds for a key
CanonicalOf(key) == (CHOOSE item \in CATEGORY_MAP : item[1] = key)[2]

\* C10: standardize_category returns the table's canonical category for every
\* input whose lowercased, trimmed form is a key of the table ("groceries"
\* gives "Food" in any casing and padding); a non-empty input absent from the
\* table comes back capitalized ("UNKNOWNLABEL" gives "Unknownlabel"); the
\* empty string gives "Other".
C10_StandardizeCategory ==
    StandardizeCalled
        => LET category == call.category
               key      == Strip(Lower(category))
           IN  /\ outcome.raised = NoError
               /\ key \in CategoryMapKeys
                    => /\ outcome.value = CanonicalOf(key)
                       /\ outcome.value \in CategoryType
               /\ key = Groceries => outcome.value = Food
               /\ (key \notin CategoryMapKeys /\ category # <<>>)
                    => outcome.value = Capitalize(category)
               /\ category = <<"U","N","K","N","O","W","N","L","A","B","E","L">>
                    => outcome.value = <<"U","n","k","n","o","w","n","l","a","b","e","l">>
               /\ category = <<>> => outcome.value = Other

\* C10: an upper-case, padded synonym was mapped to its canonical category.
C10_PaddedUpperCaseSynonym ==
    /\ StandardizeCalled
    /\ call.category = <<" ","G","R","O","C","E","R","I","E","S"," ">>
    /\ outcome.value = Food


\* C11: standardize_category is total on label strings: every call returns,
\* raising no error, a string that is not empty.
C11_TotalAndNonEmpty ==
    StandardizeCalled => outcome.raised = NoError /\ Len(outcome.value) > 0

\* C11: the empty label was given and answered with the fallback "Other".
C11_EmptyLabelGivesOther ==
    /\ StandardizeCalled
    /\ call.category = <<>>
    /\ outcome.raised = NoError
    /\ outcome.value = Other

\* C12: the result of standardize_category is, for every label string, a
\* member of the canonical category set CategoryType.
C12_ResultIsCanonical ==
    StandardizeCalled => outcome.value \in CategoryType


-----------------------------------------------------------------------------
(* clean_text                                                              *)

CleanCalled == call # NoCall /\ call.op = "clean_text"
CleanedString == CleanCalled /\ call.text.type = "str" /\ outcome.raised = NoError

\* the tokens of a string: its maximal runs of non-whitespace characters
TokensOf(s) ==
    {SubSeq(s, r[1], r[2]) :
        r \in {q \in (1..Len(s)) \X (1..Len(s)) :
                /\ q[1] <= q[2]
                /\ \A i \in q[1]..q[2] : ~IsSpace(s[i])
                /\ q[1] = 1 \/ IsSpace(s[q[1] - 1])
                /\ q[2] = Len(s) \/ IsSpace(s[q[2] + 1])}}

LettersOnly(t) == t # <<>> /\ \A i \in 1..Len(t) : IsUpper(t[i]) \/ IsLower(t[i])

\* C13: the output of clean_text holds no digit, no punctuation character, no
\* upper-case letter, no token that is a noise word, no whitespace at either
\* end and no two whitespace characters in a row; every token of the input
\* made of letters only that is not a noise word is a token of the output; the
\* documented description gives "walmart" and "store" and neither "purchase"
\* nor "#".
C13_CleanTextOutput ==
    CleanedString
        => LET text == call.text.value
               out  == outcome.value
           IN  /\ \A i \in 1..Len(out) :
                    ~IsDigit(out[i]) /\ out[i] \notin Punctuation /\ ~IsUpper(out[i])
               /\ TokensOf(out) \cap noise_words = {}
               /\ out # <<>> => ~IsSpace(out[1]) /\ ~IsSpace(out[Len(out)])
               /\ \A i \in 1..(Len(out) - 1) : ~(IsSpace(out[i]) /\ IsSpace(out[i + 1]))
               /\ \A t \in TokensOf(text) :
                    (LettersOnly(t) /\ Lower(t) \notin noise_words)
                        => Lower(t) \in TokensOf(out)
               /\ text = DocumentedDescription
                    => /\ <<"w","a","l","m","a","r","t">> \in TokensOf(out)
                       /\ <<"s","t","o","r","e">> \in TokensOf(out)
                       /\ <<"p","u","r","c","h","a","s","e">> \notin TokensOf(out)

\* C14: clean_text called with a value that is not a string returns the empty
\* string and raises no error.
C14_NonStringGivesEmpty ==
    (CleanCalled /\ call.text.type # "str")
        => outcome.raised = NoError /\ outcome.value = <<>>

\* a character of a token with letters only on both of its sides
SplitsLetters(t, i) ==
    /\ 1 < i /\ i < Len(t)
    /\ LettersOnly(SubSeq(t, 1, i - 1))
    /\ LettersOnly(SubSeq(t, i + 1, Len(t)))

\* neither the URL nor the email pattern matches inside the token
OutsideUrlAndEmail(t) ==
    /\ \A i \in 1..Len(t) : t[i] # "@"
    /\ \A i \in 1..Len(t) :
            ~StartsWith(Lower(t), i, <<"h","t","t","p">>) /\ ~StartsWith(Lower(t), i, <<"w","w","w">>)

\* C20: a digit left by the stripping steps, and a punctuation character, is
\* replaced by a space: the letters on its two sides in the input are separate
\* tokens of the output ("abc1def" gives "abc" and "def").
C20_DigitSeparatesTokens ==
    CleanedString
        => \A t \in TokensOf(call.text.value) : \A i \in 1..Len(t) :
            (/\ SplitsLetters(t, i)
             /\ IsDigit(t[i]) \/ t[i] \in Punctuation
             /\ OutsideUrlAndEmail(t))
                => LET left  == Lower(SubSeq(t, 1, i - 1))
                       right == Lower(SubSeq(t, i + 1, Len(t)))
                   IN  /\ left \in noise_words \/ left \in TokensOf(outcome.value)
                       /\ right \in noise_words \/ right \in TokensOf(outcome.value)


-----------------------------------------------------------------------------
(* The load of the model at startup                                        *)

LoadCalled == call # NoCall /\ call.op = "load_model"

\* the components the specification requires of an artifact: the pipeline,
\* the label vocabulary and the version tag
SpecifiedComponents == {"pipeline", "label_encoder", "version"}

\* C15: the load fails, and the bundle is not accepted for serving, when the
\* file does not exist, when deserialization raises, and when the artifact
\* lacks the pipeline, the label vocabulary or the version tag.
C15_UnfitArtifactRejected ==
    (/\ LoadCalled
     /\ \/ ~call.file.exists
        \/ ~call.file.loads
        \/ ~(SpecifiedComponents \subseteq DOMAIN call.file.artifact))
        => phase = "exited" /\ outcome.exit = 1

\* a request handler is running
HandlerRuns ==
    call # NoCall /\ call.op \in {"predict_categories", "predict_batch", "health_check"}

\* model_bundle holds a bundle that passed the validation of load_model
BundleValidated == model_bundle # None /\ required_keys \subseteq DOMAIN model_bundle

-----------------------------------------------------------------------------
(* The statistics of the detector, stated from the records                 *)

\* the positions whose record has the same category string as the record at idx
SameCategoryRows(transactions, idx) ==
    {i \in RowIndex(transactions) :
        /\ "category" \in DOMAIN Row(transactions, i)
        /\ Row(transactions, i).category = Row(transactions, idx).category}

\* those of them that hold an amount
Priced(transactions, idx) ==
    {i \in SameCategoryRows(transactions, idx) : "amount" \in DOMAIN Row(transactions, i)}

RECURSIVE SumOver(_, _, _)
SumOver(transactions, rows, power) ==
    IF rows = {} THEN 0
    ELSE LET i == CHOOSE r \in rows : TRUE
             x == Row(transactions, i).amount
         IN  (IF power = 2 THEN x * x ELSE x) + SumOver(transactions, rows \ {i}, power)

\* n, the sum and the sum of squares of the amounts of the group of idx
StatsOf(transactions, idx) ==
    [n  |-> Cardinality(Priced(transactions, idx)),
     s  |-> SumOver(transactions, Priced(transactions, idx), 1),
     ss |-> SumOver(transactions, Priced(transactions, idx), 2)]

\* the sample variance (divisor n - 1) times n * (n - 1)
ScaledVariance(g) == g.n * g.ss - g.s * g.s

\* z^2 of the amount x: (x - s/n)^2 / variance, as a fraction in lowest terms
ZSquaredOf(g, x) ==
    Frac((g.n - 1) * (g.n * x - g.s) * (g.n * x - g.s), g.n * ScaledVariance(g))

\* the record at idx is one the detector is specified to flag
Flagged(transactions, idx) ==
    /\ {"amount", "category"} \subseteq DOMAIN Row(transactions, idx)
    /\ Cardinality(SameCategoryRows(transactions, idx)) >= 3
    /\ LET g == StatsOf(transactions, idx)
       IN  /\ g.n >= 2
           /\ ScaledVariance(g) > 0
           /\ LET z2 == ZSquaredOf(g, Row(transactions, idx).amount)
              IN  FracGreater(z2.num, z2.den, 25, 4)

ReturnedIndices == {outcome.value[j].index : j \in 1..Len(outcome.value)}
NothingTruncated == call.contamination = [num |-> 1, den |-> 1]

\* C17: with contamination 1.0 the indices returned are exactly the input
\* positions whose group (same exact category string) has at least 3 members
\* and a non-zero sample standard deviation, and whose amount lies more than
\* 2.5 deviations from the group mean; each index is returned once.
C17_ExactlyTheFlaggedIndices ==
    (DetectorReturned /\ NothingTruncated)
        => /\ ReturnedIndices
                = {i \in RowIndex(call.transactions) : Flagged(call.transactions, i)}
           /\ Cardinality(ReturnedIndices) = Len(outcome.value)

\* the high amount under "food" beside a large group under "Food" is left
\* unflagged
C17_GroupedOnExactString ==
    /\ DetectorReturned
    /\ NothingTruncated
    /\ call.transactions = MixedCaseBatch
    /\ outcome.value = <<>>

\* C17: two records of different groups were flagged in one call.
C17_TwoGroupsFlagged ==
    /\ DetectorReturned
    /\ NothingTruncated
    /\ \E i, j \in ReturnedIndices :
            Row(call.transactions, i).category # Row(call.transactions, j).category

\* the z^2 of a returned anomaly
ZSquaredOfAnomaly(a) ==
    ZSquaredOf(StatsOf(call.transactions, a.index), Row(call.transactions, a.index).amount)

\* C18: every returned anomaly has score = min(|z| / 5, 1) (here: score^2 =
\* min(z^2 / 25, 1)) for the z-score of its record within its group; the score
\* never exceeds 1; of two returned anomalies the one of larger |z| never has
\* the smaller score.
C18_ScoreIsScaledZ ==
    DetectorReturned
        => /\ \A j \in 1..Len(outcome.value) :
                LET a  == outcome.value[j]
                    z2 == ZSquaredOfAnomaly(a)
                IN  /\ a.score.num <= a.score.den
                    /\ IF z2.num >= 25 * z2.den
                       THEN a.score = [num |-> 1, den |-> 1]
                       ELSE a.score = Frac(z2.num, 25 * z2.den)
           /\ \A j, k \in 1..Len(outcome.value) :
                LET zj == ZSquaredOfAnomaly(outcome.value[j])
                    zk == ZSquaredOfAnomaly(outcome.value[k])
                    sj == outcome.value[j].score
                    sk == outcome.value[k].score
                IN  FracGreater(zj.num, zj.den, zk.num, zk.den)
                        => ~FracGreater(sk.num, sk.den, sj.num, sj.den)

\* C18: an anomaly more than five deviations from its group mean was returned
\* with the score 1.
C18_ScoreCapped ==
    /\ DetectorReturned
    /\ \E j \in 1..Len(outcome.value) :
        LET z2 == ZSquaredOfAnomaly(outcome.value[j])
        IN  /\ z2.num > 25 * z2.den
            /\ outcome.value[j].score = [num |-> 1, den |-> 1]

\* C19: the reason of every returned anomaly says "high" exactly when the
\* amount of its record is above the mean of its group and "low" exactly when
\* it is below, and embeds the category of the record, its amount and the
\* mean of the group, both to two decimals.
C19_ReasonTellsDirection ==
    DetectorReturned
        => \A j \in 1..Len(outcome.value) :
            LET a == outcome.value[j]
                t == Row(call.transactions, a.index)
                g == StatsOf(call.transactions, a.index)
                off == a.reason.typical * g.n - 100 * g.s
            IN  /\ a.reason.direction \in {"high", "low"}
                /\ a.reason.direction = "high" <=> t.amount * g.n > g.s
                /\ a.reason.direction = "low" <=> t.amount * g.n < g.s
                /\ a.reason.category = t.category
                /\ a.reason.amount = 100 * t.amount
                /\ 2 * off <= g.n /\ -2 * off <= g.n

\* C19: an anomaly below its group mean and one above were returned together.
C19_LowAndHighReturned ==
    /\ DetectorReturned
    /\ \E j, k \in 1..Len(outcome.value) :
        /\ outcome.value[j].reason.direction = "low"
        /\ outcome.value[k].reason.direction = "high"


-----------------------------------------------------------------------------
(* The inference operations: diagnostics, equivalence, failures            *)

\* the results of confidence below one half
LowItems == {i \in 1..Len(outcome.body) : outcome.body[i].confidence < 50}

\* C21: in both inference operations every result is returned unaltered, also
\* when its confidence is below 0.5, and a diagnostic line that identifies the
\* item is emitted for each result of confidence below 0.5 and for no other.
C21_LowConfidenceSignalled ==
    ((PredictCalled \/ BatchCalled) /\ outcome.status = 200)
        => /\ Len(outcome.body) = Len(Scored)
           /\ \A i \in 1..Len(outcome.body) : outcome.body[i] = PredictionFor(Scored[i])
           /\ Len(diag) = Cardinality(LowItems)
           /\ \A i \in LowItems :
                \E k \in 1..Len(diag) :
                    /\ diag[k].description = Strip(Scored[i])
                    /\ diag[k].confidence = outcome.body[i].confidence

\* C21: /predict returned a result of confidence below 0.5 and printed nothing.
C21_SilentLowConfidence ==
    /\ PredictCalled
    /\ outcome.status = 200
    /\ LowItems # {}
    /\ diag = <<>>

\* what /predict answers for the descriptions of the records submitted
PredictOfDescriptions == predict_categories_handler(model_bundle, Submitted).response

\* C22 as stated: for every sequence of transaction records predict-batch
\* returns the list of predictions that predict returns for the descriptions
\* of the records.
C22_BatchEqualsPredict ==
    (BatchCalled /\ outcome.status = 200)
        => /\ PredictOfDescriptions.status = 200
           /\ PredictOfDescriptions.body = outcome.body

\* C22, amended: the two lists are the same for every sequence of at most 100
\* records.
C22_BatchEqualsPredictUpTo100 ==
    (BatchCalled /\ outcome.status = 200 /\ Len(call.transactions) <= SimpleTextMaxItems)
        => /\ PredictOfDescriptions.status = 200
           /\ PredictOfDescriptions.body = outcome.body
           /\ Len(outcome.body) = Len(call.transactions)

\* C22: predict-batch answered a full batch holding a description with
\* surrounding whitespace and a label that standardization changes.
C22_PaddedBatchAnswered ==
    /\ BatchCalled
    /\ outcome.status = 200
    /\ Len(call.transactions) = MaxBatch
    /\ \E i \in 1..Len(call.transactions) :
            call.transactions[i].description # Strip(call.transactions[i].description)
    /\ \E i \in 1..Len(outcome.body) : outcome.body[i].category = Food

\* a step of the inference call on the loaded bundle raises: the pipeline
\* cannot predict, a predicted index has no label, or a confidence is refused
\* by PredictionResult
StepRaises ==
    \/ model_bundle.pipeline.kind = "broken"
    \/ \E i \in 1..Len(Scored) :
        LET row == ProbabilityVector(Scored[i])
        IN  \/ \E j \in 1..Len(row) :
                /\ row[j] > 100 \/ row[j] < 0
                /\ \A k \in 1..Len(row) : row[k] <= row[j]
            \/ \E j \in 1..Len(row) :
                /\ j > Len(model_bundle.label_encoder)
                /\ \A k \in 1..Len(row) : row[k] < row[j] \/ (k >= j /\ row[k] = row[j])

ErrorCauses ==
    {"pipeline cannot predict", "y contains previously unseen labels",
     "confidence out of range"}

\* C23: with the model loaded, an inference call one step of which raises
\* ends with status 500 and a detail made of the operation's prefix and the
\* message of the cause, and nothing else: no traceback, no list of
\* predictions; the traceback goes to the console only.
C23_FailureWrapped ==
    (HandlerEntered /\ model_bundle # None)
        => /\ StepRaises
                => /\ outcome.status = 500
                   /\ Len(outcome.body) = 3
                   /\ outcome.body[1] = IF PredictCalled THEN "Prediction"
                                        ELSE "Batch prediction"
                   /\ outcome.body[2] = " failed: "
                   /\ outcome.body[3] \in ErrorCauses
                   /\ model_bundle.pipeline.kind = "broken"
                        => outcome.body[3] = "pipeline cannot predict"
                   /\ diag[Len(diag)] = [line |-> "traceback"]
           /\ ~StepRaises => outcome.status = 200

\* C23: the label decoding failed in predict-batch and was answered with 500.
C23_DecodingFailed ==
    /\ BatchCalled
    /\ outcome.status = 500
    /\ outcome.body[3] = "y contains previously unseen labels"

-----------------------------------------------------------------------------
(* clean_text applied to its own result                                    *)

\* C26: clean_text is idempotent: cleaning a cleaned string gives the same
\* string, also when the removal of digits and punctuation in the first pass
\* produced a token that begins with "http" or "www" or is a noise word.
C26_CleanTextIdempotent ==
    CleanedString => clean_text(outcome.value) = outcome.value

\* what the code does: the first pass has returned a token that begins with
\* "http", and a second pass deletes it
C26_SecondPassDeletesToken ==
    /\ CleanedString
    /\ \E t \in TokensOf(outcome.value) : StartsWith(t, 1, <<"h","t","t","p">>)
    /\ clean_text(outcome.value) # outcome.value

-----------------------------------------------------------------------------
(* The detector: group size, indices, truncation, score range              *)

C27_IndexIsInputPosition ==
    DetectorReturned =>
        /\ \A j \in 1..Len(outcome.value) :
                /\ outcome.value[j].index \in 0..(Len(call.transactions) - 1)
                /\ Flagged(call.transactions, outcome.value[j].index)
        /\ \A j, k \in 1..Len(outcome.value) :
                j # k => outcome.value[j].index # outcome.value[k].index

\* C27 witness: two anomalies were returned, one of them the last record of
\* the batch.
C27_LastRecordReturned ==
    /\ DetectorReturned
    /\ Len(outcome.value) >= 2
    /\ \E j \in 1..Len(outcome.value) :
            outcome.value[j].index = Len(call.transactions) - 1

\* min(|z| / 5, 1) of the record at idx within its group, as score^2
ScoreOfRecord(transactions, idx) ==
    LET z2 == ZSquaredOf(StatsOf(transactions, idx), Row(transactions, idx).amount)
    IN  IF z2.num >= 25 * z2.den THEN [num |-> 1, den |-> 1]
        ELSE Frac(z2.num, 25 * z2.den)

\* the flagged records that were not returned
LeftOut ==
    {idx \in RowIndex(call.transactions) :
        Flagged(call.transactions, idx) /\ idx \notin ReturnedIndices}

\* C28: the returned list is a prefix of the score-sorted list of all flagged
\* records: no flagged record that was left out has a score strictly greater
\* than the score of a returned anomaly.
C28_LeftOutNeverScoresHigher ==
    DetectorReturned =>
        \A idx \in LeftOut : \A j \in 1..Len(outcome.value) :
            ~ScoreLess(outcome.value[j].score, ScoreOfRecord(call.transactions, idx))

\* C28 witness: the limit cut the list, and a flagged record of a strictly
\* smaller score than the returned ones, standing earlier in the order of
\* the groups, was left out.
C28_LowerScoreLeftOut ==
    /\ DetectorReturned
    /\ outcome.value # <<>>
    /\ \E idx \in LeftOut : \A j \in 1..Len(outcome.value) :
            /\ ScoreLess(ScoreOfRecord(call.transactions, idx), outcome.value[j].score)
            /\ StrLess(Row(call.transactions, idx).category,
                       CategoryOfIndex(outcome.value[j].index))

\* C30: the score of every returned anomaly is strictly greater than 0.5 and
\* at most 1.0 (here: score^2 > 1/4 and score^2 <= 1).
C30_ScoreAboveHalf ==
    DetectorReturned =>
        \A j \in 1..Len(outcome.value) :
            /\ 4 * outcome.value[j].score.num > outcome.value[j].score.den
            /\ outcome.value[j].score.num <= outcome.value[j].score.den

\* C30 witness: an anomaly was returned whose score lies strictly between
\* 0.5 and 0.6, from a record just beyond 2.5 deviations.
C30_ScoreJustAboveHalf ==
    /\ DetectorReturned
    /\ \E j \in 1..Len(outcome.value) :
            /\ 4 * outcome.value[j].score.num > outcome.value[j].score.den
            /\ 25 * outcome.value[j].score.num < 9 * outcome.value[j].score.den

-----------------------------------------------------------------------------
(* detect_anomalies and the model                                          *)

AnomaliesCalled == call.op = "detect_anomalies"

\* C29: the response of detect-anomalies is the one its input alone
\* determines, whether model_bundle holds a loaded bundle or None, and the
\* call leaves model_bundle as it was.
C29_DetectAnomaliesIgnoresModel ==
    /\ [](AnomaliesCalled =>
            outcome = detect_anomalies_handler(call.transactions).response)
    /\ [][(call = NoCall /\ call'.op = "detect_anomalies")
                => model_bundle' = model_bundle]_vars

\* C29 witness: detect-anomalies has returned anomalies while a bundle was
\* loaded.
C29_AnomaliesWithLoadedModel ==
    /\ AnomaliesCalled
    /\ model_bundle # None
    /\ phase = "serving"
    /\ outcome.status = 200
    /\ outcome.body # <<>>

\* detect-anomalies has returned anomalies while model_bundle was None
C29_AnomaliesWithoutModel ==
    /\ AnomaliesCalled
    /\ model_bundle = None
    /\ outcome.status = 200
    /\ outcome.body # <<>>

-----------------------------------------------------------------------------
(* Requests handled at the same time                                       *)

\* the requests dispatched after a successful load
Served(s) == inflight[s].pc # "idle" /\ inflight[s].at_dispatch # None

\* what a request returns when it is the only one: the handler applied to
\* the bundle and the input
AloneResponse(bundle, request) ==
    CASE request.op = "predict_categories" ->
            predict_categories_handler(bundle, request.input).response
      [] request.op = "predict_batch" ->
            predict_batch_handler(bundle, request.input).response
      [] request.op = "health_check" -> health_check_handler(bundle, request.input)
      [] request.op = "detect_anomalies" -> detect_anomalies_handler(request.input).response

SameBundleRead ==
    \A s \in Slots : Served(s) =>
        /\ \A i \in 1..Len(inflight[s].seen) : inflight[s].seen[i] = model_bundle
        /\ inflight[s].at_dispatch = model_bundle
        /\ inflight[s].pc = "done" =>
                inflight[s].response = AloneResponse(inflight[s].at_dispatch, inflight[s].request)

\* C24: once load_model has succeeded no step of any handler changes
\* model_bundle; every request dispatched after the load reads the bundle
\* that was loaded at each of its reads, however the steps of the requests
\* interleave, and its response is the one its handler gives for that bundle
\* and its input alone.
C24_BundleReadOnlyAfterLoad ==
    /\ [](SameBundleRead)
    /\ [][phase = "serving" => model_bundle' = model_bundle]_vars

\* C24 witness: a predict-batch request has responded while a predict request
\* dispatched after the load is between its reads of model_bundle.
C24_InterleavedRequests ==
    \E s, t \in Slots :
        /\ s # t /\ Served(s) /\ Served(t)
        /\ inflight[s].pc = "done" /\ inflight[s].request.op = "predict_batch"
        /\ inflight[s].response.status = 200
        /\ inflight[t].pc = "running" /\ inflight[t].request.op = "predict_categories"
        /\ Len(inflight[t].seen) = 2

====
